---- MODULE Spec2Model ----
(***************************************************************************)
(* dumpsys-rs: Dumpsys::dump and Dumpsys::dump_to_byte (src/src/lib.rs).   *)
(*                                                                         *)
(* One capture call is modelled as two threads that share an OS pipe:      *)
(*   - the issuing context (pc): creates the pipe, spawns the worker,      *)
(*     reads the pipe's read end, joins the worker, returns;               *)
(*   - the worker (wpc): runs service.dump(&write, args), during which the *)
(*     remote service writes its output W into the write end, then drops   *)
(*     the write end when its closure finishes.                            *)
(* The remote service, the pipe and the thread primitives are external:    *)
(* the remote is a stub that writes W in arbitrary chunks and then         *)
(* succeeds, fails, or makes the worker panic; the pipe is a bounded FIFO  *)
(* whose reads may fail.                                                   *)
(***************************************************************************)
EXTENDS Integers, Sequences, FiniteSets, TLC

\* Capacity of the OS pipe buffer, in bytes.
PipeCap == 2
\* Longest output the remote stub writes.
MaxLen == 4
\* Largest N of dump_to_byte::<N>.
MaxN == 2

\* Byte values the stub writes: 'A' (one-byte character), 0xC3 (lead byte of a
\* two-byte character), 0xA9 (continuation byte).  0xC3 0xA9 is one character;
\* 0xC3 or 0xA9 alone does not decode.
Bytes == {65, 195, 169}

\* Service names a caller asks for.
ServiceNames == {"SurfaceFlinger", "gfxinfo"}

Min(a, b) == IF a < b THEN a ELSE b

RECURSIVE SeqsUpTo(_)
SeqsUpTo(n) ==
  IF n = 0 THEN {<< >>}
  ELSE LET S == SeqsUpTo(n - 1)
       IN  S \cup {Append(s, b) : s \in {t \in S : Len(t) = n - 1}, b \in Bytes}

Outputs == SeqsUpTo(MaxLen)
Outcomes == {"ok", "fail", "panic"}

VARIABLES
  service,     \* what Dumpsys::new returned: "unset" before it, "None", or the handle
  resolved,    \* what the registry answered to check_service: "None" or the handle
  op,          \* "none" | "dump" | "dump_to_byte": the capture operation called
  N,           \* the const generic N of dump_to_byte (0 for dump)
  W,           \* remote stub: the bytes its dump writes
  outcome,     \* remote stub: how service.dump ends ("ok" | "fail" | "panic")
  pc,          \* issuing context: idle, pipe, spawn, read, join, returned, panicked
  wpc,         \* worker: idle, spawned, dump, drop, done
  buf,         \* the capture buffer (String bytes in dump, [u8; N] in dump_to_byte)
  total_read,  \* dump_to_byte's total_read
  pipe,        \* unread bytes in the pipe buffer
  nwritten,    \* how many bytes of W the remote has written
  readOpen,    \* the pipe's read end is open
  writeOpen,   \* the pipe's write end is open
  result,      \* the worker thread's result, once it has finished
  ret,         \* what the call returned: none, Ok, ErrIo, ErrDump, Panic
  ioErr,       \* a read on the pipe's read end has failed
  eof,         \* a read has returned zero bytes
  joined,      \* handle.join() has returned
  pipes,       \* pipes created by the call
  spawns,      \* workers spawned by the call
  dumps,       \* invocations of the remote dump
  calls,       \* several calls on one handle: the state of each call
  ptab         \* several calls on one handle: the pipes created so far

vars == << service, resolved, op, N, W, outcome, pc, wpc, buf, total_read, pipe, nwritten,
           readOpen, writeOpen, result, ret, ioErr, eof, joined,
           pipes, spawns, dumps, calls, ptab >>

stub == << op, N, W, outcome >>
handle == << service, resolved >>
multi == << calls, ptab >>
counters == << pipes, spawns, dumps >>

----------------------------------------------------------------------------
(* Text decoding: String::from_utf8-style validation used by read_to_string *)

IsCont(b) == b >= 128 /\ b <= 191

\* Width of the character a lead byte starts; 0 for a byte that starts none.
Utf8Width(b) ==
  IF b < 128 THEN 1
  ELSE IF b >= 194 /\ b <= 223 THEN 2
  ELSE IF b >= 224 /\ b <= 239 THEN 3
  ELSE IF b >= 240 /\ b <= 244 THEN 4
  ELSE 0

\* Range the first continuation byte must lie in (E0, ED, F0, F4 are narrower).
FirstContOk(lead, b) ==
  IF lead = 224 THEN b >= 160 /\ b <= 191
  ELSE IF lead = 237 THEN b >= 128 /\ b <= 159
  ELSE IF lead = 240 THEN b >= 144 /\ b <= 191
  ELSE IF lead = 244 THEN b >= 128 /\ b <= 143
  ELSE IsCont(b)

\* One well-formed character starts at position i of s.
CharAt(s, i) ==
  LET w == Utf8Width(s[i])
  IN  /\ w > 0
      /\ i + w - 1 <= Len(s)
      /\ w >= 2 => FirstContOk(s[i], s[i + 1])
      /\ \A j \in (i + 2)..(i + w - 1) : IsCont(s[j])

\* Number of leading bytes of s (from position i) that decode: valid_up_to.
RECURSIVE ValidFrom(_, _)
ValidFrom(s, i) ==
  IF i > Len(s) THEN Len(s)
  ELSE IF CharAt(s, i) THEN ValidFrom(s, i + Utf8Width(s[i]))
  ELSE i - 1

ValidUpTo(s) == ValidFrom(s, 1)
Utf8Valid(s) == ValidUpTo(s) = Len(s)

\* read_to_string's guard: the bytes appended after position len are kept only
\* if they are valid UTF-8; otherwise the String is cut back to len.
AppendToString(v, len) ==
  IF Utf8Valid(SubSeq(v, len + 1, Len(v))) THEN v ELSE SubSeq(v, 1, len)

----------------------------------------------------------------------------
(* Helpers of the read loops *)

Zeros(n) == [i \in 1..n |-> 0]

\* let mut buf = String::new()  /  let mut buf = [0u8; N]
InitBuf(o, n) == IF o = "dump" THEN << >> ELSE Zeros(n)

\* Faulty variant of StoreAt: every read stores at the start of buf (read(&mut buf)).
StoreAtStart(b, off, chunk) ==
  [i \in 1..Len(b) |-> IF i <= Len(chunk) THEN chunk[i] ELSE b[i]]

\* read(&mut buf[total_read..]) stores the bytes read at offset total_read.
StoreAt(b, off, chunk) ==
  [i \in 1..Len(b) |->
     IF i > off /\ i <= off + Len(chunk) THEN chunk[i - off] ELSE b[i]]

\* Faulty variant of Extend: each chunk is decoded on its own, and dropped when it
\* does not decode.
ExtendPerChunk(b, chunk) == IF Utf8Valid(chunk) THEN b \o chunk ELSE b

\* Faulty variant of Extend: the bytes read are put in front of the earlier ones.
ExtendFront(b, chunk) == chunk \o b

\* read_to_end appends the bytes read to the String's vector.
Extend(b, chunk) == b \o chunk

\* Faulty variant of KeepReading: dump joins the worker without draining the pipe.
KeepReadingJoinFirst(o, total, n) == o # "dump" /\ total < n

\* The loop keeps calling read: read_to_string until end of stream or an
\* error; dump_to_byte while total_read < N.
KeepReading(o, total, n) == IF o = "dump" THEN TRUE ELSE total < n

\* Faulty variant of ReadRequest: every read is offered the whole buffer.
ReadRequestWhole(o, total, n, avail) == IF o = "dump" THEN avail ELSE n

\* Bytes a read call may return at most: dump_to_byte offers the unfilled
\* positions buf[total_read..]; read_to_end offers spare capacity that is
\* never smaller than what the pipe holds.
ReadRequest(o, total, n, avail) == IF o = "dump" THEN avail ELSE n - total

\* The single error type: which failure it wraps.
DumpErrorFrom(src) == IF src = "io" THEN "ErrIo" ELSE "ErrDump"

\* Faulty variant of JoinResult: the worker's error is dropped (no ? after unwrap).
JoinResultNoTry(r) == IF r = "panic" THEN "Panic" ELSE "Ok"

\* Faulty variant of JoinResult: a panicked worker is reported as the typed error.
JoinResultNoUnwrap(r) == IF r = "ok" THEN "Ok" ELSE DumpErrorFrom("status")

\* handle.join().unwrap()? : a panicked worker makes unwrap panic, a failed
\* dump is returned by ?, a successful one lets the call go on to Ok(buf).
JoinResult(r) ==
  IF r = "panic" THEN "Panic"
  ELSE IF r = "fail" THEN DumpErrorFrom("status")
  ELSE "Ok"

\* Faulty variant of HoldsWrite: the write end is given up when the dump starts.
HoldsWriteUntilDump(w) == w = "spawned"

\* The closure owns write (move) from the spawn until it has finished: the
\* write end is open at every worker position but the last.
HoldsWrite(w) == w # "done"

\* Faulty variant of NewResult: absence is replaced by a handle to nothing.
NewResultOrDefault(r) == IF r = "None" THEN "null" ELSE r

\* let service = check_service(..)?; Some(Self { service }): None stays None,
\* a handle is wrapped.
NewResult(r) == IF r = "None" THEN "None" ELSE r

\* Faulty variant of AfterPipe: the call goes on to the spawn after a failed pipe().
AfterPipeNoTry(ok) == "spawn"

\* os_pipe::pipe()? : on failure ? returns from the call before the spawn.
AfterPipe(ok) == IF ok THEN "spawn" ELSE "returned"

----------------------------------------------------------------------------
Init ==
  /\ service = "unset" /\ resolved = "unset"
  /\ op = "none" /\ N = 0 /\ W = << >> /\ outcome = "ok"
  /\ pc = "idle" /\ wpc = "idle"
  /\ buf = << >> /\ total_read = 0
  /\ pipe = << >> /\ nwritten = 0
  /\ readOpen = FALSE /\ writeOpen = FALSE
  /\ result = "none" /\ ret = "none"
  /\ ioErr = FALSE /\ eof = FALSE /\ joined = FALSE
  /\ pipes = 0 /\ spawns = 0 /\ dumps = 0
  /\ calls = << >> /\ ptab = << >>

\* pub fn new(service_name): check_service(service_name.as_ref())? answers r,
\* the handle registered under the name or None.
New(name, r) ==
  /\ service = "unset"
  /\ r \in {"None", name}
  /\ resolved' = r
  /\ service' = NewResult(r)
  /\ UNCHANGED << multi, stub, pc, wpc, buf, total_read, pipe, nwritten, readOpen,
                  writeOpen, result, ret, ioErr, eof, joined, counters >>

\* The caller invokes dump(args) or dump_to_byte::<n>(args) against a remote
\* that will write w and end with out: buf (and total_read) are initialised.
Call(o, n, w, out) ==
  /\ pc = "idle"
  /\ service \notin {"unset", "None"}
  /\ op' = o /\ N' = n /\ W' = w /\ outcome' = out
  /\ buf' = InitBuf(o, n)
  /\ total_read' = 0
  /\ pc' = "pipe"
  /\ UNCHANGED << multi, handle, wpc, pipe, nwritten, readOpen, writeOpen, result,
                  ret, ioErr, eof, joined, counters >>

\* let (mut read, write) = os_pipe::pipe()?;   -- the pipe is created
PipeOk ==
  /\ pc = "pipe"
  /\ pipes' = pipes + 1
  /\ readOpen' = TRUE /\ writeOpen' = TRUE
  /\ pipe' = << >>
  /\ pc' = AfterPipe(TRUE)
  /\ UNCHANGED << multi, handle, stub, wpc, buf, total_read, nwritten, result, ret, ioErr,
                  eof, joined, spawns, dumps >>

\* let (mut read, write) = os_pipe::pipe()?;   -- pipe creation fails
PipeFail ==
  /\ pc = "pipe"
  /\ ret' = DumpErrorFrom("io")
  /\ pc' = AfterPipe(FALSE)
  /\ UNCHANGED << multi, handle, stub, wpc, buf, total_read, pipe, nwritten, readOpen,
                  writeOpen, result, ioErr, eof, joined, counters >>

\* let handle = thread::spawn(move || service.dump(&write, args));
Spawn ==
  /\ pc = "spawn"
  /\ spawns' = spawns + 1
  /\ wpc' = "spawned"
  /\ pc' = "read"
  /\ UNCHANGED << multi, handle, stub, buf, total_read, pipe, nwritten, readOpen, writeOpen,
                  result, ret, ioErr, eof, joined, pipes, dumps >>

----------------------------------------------------------------------------
(* The worker: move || service.dump(&write, args) *)

\* The closure starts running and invokes the remote dump.
WorkerStart ==
  /\ wpc = "spawned"
  /\ dumps' = dumps + 1
  /\ wpc' = "dump"
  /\ writeOpen' = HoldsWrite("dump")
  /\ UNCHANGED << multi, handle, stub, pc, buf, total_read, pipe, nwritten, readOpen,
                  result, ret, ioErr, eof, joined, pipes, spawns >>

\* The remote writes the next k bytes of W into the write end.  With the read
\* end open the write takes only what fits in the pipe buffer (and blocks when
\* nothing fits); with the read end closed the bytes go nowhere.
WorkerWrite(k) ==
  /\ wpc = "dump"
  /\ nwritten + k <= Len(W)
  /\ IF readOpen
       THEN /\ Len(pipe) + k <= PipeCap
            /\ pipe' = pipe \o SubSeq(W, nwritten + 1, nwritten + k)
       ELSE pipe' = pipe
  /\ nwritten' = nwritten + k
  /\ UNCHANGED << multi, handle, stub, pc, wpc, buf, total_read, readOpen, writeOpen, result,
                  ret, ioErr, eof, joined, counters >>

\* service.dump returns (Ok or Err) or panics, after the remote has written W.
WorkerReturn ==
  /\ wpc = "dump"
  /\ nwritten = Len(W)
  /\ wpc' = "drop"
  /\ UNCHANGED << multi, handle, stub, pc, buf, total_read, pipe, nwritten, readOpen,
                  writeOpen, result, ret, ioErr, eof, joined, counters >>

\* The closure ends (or unwinds): write is dropped, which closes the write
\* end, and the thread's result becomes available to join.
WorkerExit ==
  /\ wpc = "drop"
  /\ writeOpen' = HoldsWrite("done")
  /\ result' = outcome
  /\ wpc' = "done"
  /\ UNCHANGED << multi, handle, stub, pc, buf, total_read, pipe, nwritten, readOpen, ret,
                  ioErr, eof, joined, counters >>

----------------------------------------------------------------------------
(* The issuing context's read loop *)

\* A read returns k > 0 bytes: at most what the pipe holds and what the
\* buffer offered.
ReadData(k) ==
  /\ pc = "read"
  /\ KeepReading(op, total_read, N)
  /\ k <= Min(Len(pipe), ReadRequest(op, total_read, N, Len(pipe)))
  /\ LET chunk == SubSeq(pipe, 1, k)
     IN  IF op = "dump"
           THEN /\ buf' = Extend(buf, chunk)
                /\ total_read' = total_read
           ELSE /\ buf' = StoreAt(buf, total_read, chunk)
                /\ total_read' = total_read + k
  /\ pipe' = SubSeq(pipe, k + 1, Len(pipe))
  /\ UNCHANGED << multi, handle, stub, pc, wpc, nwritten, readOpen, writeOpen, result, ret,
                  ioErr, eof, joined, counters >>

\* A read returns 0: the pipe is empty and its write end is closed.
\* read_to_string then validates what it appended; dump_to_byte breaks.
ReadEof ==
  /\ pc = "read"
  /\ KeepReading(op, total_read, N)
  /\ pipe = << >> /\ ~writeOpen
  /\ eof' = TRUE
  /\ buf' = IF op = "dump" THEN AppendToString(buf, 0) ELSE buf
  /\ pc' = "join"
  /\ UNCHANGED << multi, handle, stub, wpc, total_read, pipe, nwritten, readOpen, writeOpen,
                  result, ret, ioErr, joined, counters >>

\* dump_to_byte: the loop condition total_read < N is false.
LoopExit ==
  /\ pc = "read"
  /\ ~KeepReading(op, total_read, N)
  /\ pc' = "join"
  /\ UNCHANGED << multi, handle, stub, wpc, buf, total_read, pipe, nwritten, readOpen,
                  writeOpen, result, ret, ioErr, eof, joined, counters >>

\* A read fails with an I/O error.
\*   dump:         let _ = read.read_to_string(&mut buf);  the error is
\*                 dropped and the call goes on to the join;
\*   dump_to_byte: read.read(..)?  returns the error at once: handle is
\*                 dropped without a join and read is closed.
ReadFail ==
  /\ pc = "read"
  /\ KeepReading(op, total_read, N)
  /\ ioErr' = TRUE
  /\ IF op = "dump"
       THEN /\ buf' = AppendToString(buf, 0)
            /\ pc' = "join"
            /\ UNCHANGED << ret, readOpen >>
       ELSE /\ ret' = DumpErrorFrom("io")
            /\ readOpen' = FALSE
            /\ pc' = "returned"
            /\ UNCHANGED buf
  /\ UNCHANGED << multi, handle, stub, wpc, total_read, pipe, nwritten, writeOpen, result,
                  eof, joined, counters >>

\* handle.join().unwrap()?; then the block ends (read is dropped) and the
\* call returns Ok(buf), returns the worker's error, or panics.
Join ==
  /\ pc = "join"
  /\ wpc = "done"
  /\ joined' = TRUE
  /\ ret' = JoinResult(result)
  /\ readOpen' = FALSE
  /\ pc' = IF JoinResult(result) = "Panic" THEN "panicked" ELSE "returned"
  /\ UNCHANGED << multi, handle, stub, wpc, buf, total_read, pipe, nwritten, writeOpen,
                  result, ioErr, eof, counters >>

----------------------------------------------------------------------------
CallerStep ==
  \/ PipeOk
  \/ PipeFail
  \/ Spawn
  \/ \E k \in 1..PipeCap : ReadData(k)
  \/ ReadEof
  \/ LoopExit
  \/ ReadFail
  \/ Join

WorkerStep ==
  \/ WorkerStart
  \/ \E k \in 1..PipeCap : WorkerWrite(k)
  \/ WorkerReturn
  \/ WorkerExit

\* pub fn dump(&self, args)
CallDump ==
  /\ pc = "idle"
  /\ \E w \in Outputs, out \in Outcomes : Call("dump", 0, w, out)

\* pub fn dump_to_byte<const N: usize>(&self, args)
CallDumpToByte ==
  /\ pc = "idle"
  /\ \E n \in 0..MaxN, w \in Outputs, out \in Outcomes :
       Call("dump_to_byte", n, w, out)

\* Dumpsys::new(name), for any name and any answer of the registry
Construct == \E name \in ServiceNames, r \in {"None"} \cup ServiceNames : New(name, r)

Next ==
  \/ Construct
  \/ CallDump
  \/ CallDumpToByte
  \/ CallerStep
  \/ WorkerStep

Spec == Init /\ [][Next]_vars

\* Both threads are scheduled: a thread that can take a step eventually does.
FairSpec == Spec /\ WF_vars(CallerStep) /\ WF_vars(WorkerStep)

----------------------------------------------------------------------------
(* Several capture calls on one handle.  Each call runs the same code as     *)
(* above with its own locals (a record of calls) and the pipe it created;    *)
(* the pipes of the process are a table, os_pipe::pipe() adding one.         *)

\* Pipe buffer capacity, longest output and largest N in these runs.
PipeCapX == 1
MaxLenX == 2
MaxNX == 1

CallIds == {1, 2}

\* How the remote's dump ends is decided when it returns (outcome is "none"
\* until then).  The remote's output in call c: up to MaxLenX copies of a byte that tells
\* the calls apart ('A' for call 1, 'B' for call 2).
ByteOf(c) == 64 + c
OutputsX(c) == {[i \in 1..n |-> ByteOf(c)] : n \in 0..MaxLenX}

IdleCall ==
  [op |-> "none", N |-> 0, W |-> << >>, outcome |-> "none",
   pc |-> "idle", wpc |-> "idle", buf |-> << >>, total_read |-> 0,
   nwritten |-> 0, rd |-> 0, wr |-> 0, result |-> "none", ret |-> "none",
   ioErr |-> FALSE, eof |-> FALSE, joined |-> FALSE]

EmptyPipe == [data |-> << >>, readOpen |-> TRUE, writeOpen |-> TRUE]

\* Faulty variant of FreshPipe: one pipe is created once and used by every call.
SharedPipe(t) == 1

\* os_pipe::pipe() creates a new pipe at every call.
FreshPipe(t) == Len(t) + 1

\* A handle built by Dumpsys::new exists; no call has started.
InitX ==
  /\ service = "SurfaceFlinger" /\ resolved = "SurfaceFlinger"
  /\ op = "none" /\ N = 0 /\ W = << >> /\ outcome = "ok"
  /\ pc = "idle" /\ wpc = "idle"
  /\ buf = << >> /\ total_read = 0
  /\ pipe = << >> /\ nwritten = 0
  /\ readOpen = FALSE /\ writeOpen = FALSE
  /\ result = "none" /\ ret = "none"
  /\ ioErr = FALSE /\ eof = FALSE /\ joined = FALSE
  /\ pipes = 0 /\ spawns = 0 /\ dumps = 0
  /\ calls = [c \in CallIds |-> IdleCall]
  /\ ptab = << >>

single == << op, N, W, outcome, pc, wpc, buf, total_read, pipe, nwritten,
             readOpen, writeOpen, result, ret, ioErr, eof, joined,
             pipes, spawns, dumps >>

\* dump(args) or dump_to_byte::<n>(args) is called on &self: buf and
\* total_read are initialised; the handle is only borrowed.
XCall(c, o, n, w) ==
  /\ calls[c].pc = "idle"
  /\ service \notin {"unset", "None"}
  /\ calls' = [calls EXCEPT ![c] =
       [@ EXCEPT !.op = o, !.N = n, !.W = w,
                 !.buf = InitBuf(o, n), !.total_read = 0, !.pc = "pipe"]]
  /\ UNCHANGED << ptab, handle, single >>

\* let (mut read, write) = os_pipe::pipe()?;   -- the pipe is created
XPipeOk(c) ==
  /\ calls[c].pc = "pipe"
  /\ LET id == FreshPipe(ptab)
     IN  /\ ptab' = IF id > Len(ptab) THEN Append(ptab, EmptyPipe) ELSE ptab
         /\ calls' = [calls EXCEPT ![c] =
              [@ EXCEPT !.rd = id, !.wr = id, !.pc = AfterPipe(TRUE)]]
  /\ UNCHANGED << handle, single >>

\* let (mut read, write) = os_pipe::pipe()?;   -- pipe creation fails
XPipeFail(c) ==
  /\ calls[c].pc = "pipe"
  /\ calls' = [calls EXCEPT ![c] =
       [@ EXCEPT !.ret = DumpErrorFrom("io"), !.pc = AfterPipe(FALSE)]]
  /\ UNCHANGED << ptab, handle, single >>

\* let handle = thread::spawn(move || service.dump(&write, args));
XSpawn(c) ==
  /\ calls[c].pc = "spawn"
  /\ calls' = [calls EXCEPT ![c] = [@ EXCEPT !.wpc = "spawned", !.pc = "read"]]
  /\ UNCHANGED << ptab, handle, single >>

\* The closure starts running and invokes the remote dump.
XWorkerStart(c) ==
  /\ calls[c].wpc = "spawned"
  /\ calls' = [calls EXCEPT ![c].wpc = "dump"]
  /\ ptab' = [ptab EXCEPT ![calls[c].wr].writeOpen = HoldsWrite("dump")]
  /\ UNCHANGED << handle, single >>

\* The remote writes the next k bytes of the call's output into the write
\* end the worker passed to it.
XWorkerWrite(c, k) ==
  /\ calls[c].wpc = "dump"
  /\ calls[c].nwritten + k <= Len(calls[c].W)
  /\ LET p == ptab[calls[c].wr]
         chunk == SubSeq(calls[c].W, calls[c].nwritten + 1, calls[c].nwritten + k)
     IN  IF p.readOpen
           THEN /\ Len(p.data) + k <= PipeCapX
                /\ ptab' = [ptab EXCEPT ![calls[c].wr].data = @ \o chunk]
           ELSE ptab' = ptab
  /\ calls' = [calls EXCEPT ![c].nwritten = @ + k]
  /\ UNCHANGED << handle, single >>

\* service.dump returns (Ok or Err) or panics, after the remote has written:
\* out is how the invocation ends.
XWorkerReturn(c, out) ==
  /\ calls[c].wpc = "dump"
  /\ calls[c].nwritten = Len(calls[c].W)
  /\ calls' = [calls EXCEPT ![c] = [@ EXCEPT !.outcome = out, !.wpc = "drop"]]
  /\ UNCHANGED << ptab, handle, single >>

\* The closure ends (or unwinds): write is dropped, the result is stored.
XWorkerExit(c) ==
  /\ calls[c].wpc = "drop"
  /\ ptab' = [ptab EXCEPT ![calls[c].wr].writeOpen = HoldsWrite("done")]
  /\ calls' = [calls EXCEPT ![c] =
       [@ EXCEPT !.result = calls[c].outcome, !.wpc = "done"]]
  /\ UNCHANGED << handle, single >>

\* A read on the call's read end returns k > 0 bytes.
XReadData(c, k) ==
  /\ calls[c].pc = "read"
  /\ KeepReading(calls[c].op, calls[c].total_read, calls[c].N)
  /\ LET p == ptab[calls[c].rd]
         chunk == SubSeq(p.data, 1, k)
     IN  /\ k <= Min(Len(p.data),
                     ReadRequest(calls[c].op, calls[c].total_read, calls[c].N,
                                 Len(p.data)))
         /\ calls' = [calls EXCEPT ![c] =
              IF calls[c].op = "dump"
                THEN [@ EXCEPT !.buf = Extend(calls[c].buf, chunk)]
                ELSE [@ EXCEPT !.buf = StoreAt(calls[c].buf, calls[c].total_read, chunk),
                               !.total_read = calls[c].total_read + k]]
         /\ ptab' = [ptab EXCEPT ![calls[c].rd].data = SubSeq(p.data, k + 1, Len(p.data))]
  /\ UNCHANGED << handle, single >>

\* A read returns 0: the call's pipe is empty and its write end is closed.
XReadEof(c) ==
  /\ calls[c].pc = "read"
  /\ KeepReading(calls[c].op, calls[c].total_read, calls[c].N)
  /\ ptab[calls[c].rd].data = << >>
  /\ ~ptab[calls[c].rd].writeOpen
  /\ calls' = [calls EXCEPT ![c] =
       [@ EXCEPT !.eof = TRUE, !.pc = "join",
                 !.buf = IF calls[c].op = "dump"
                           THEN AppendToString(calls[c].buf, 0)
                           ELSE calls[c].buf]]
  /\ UNCHANGED << ptab, handle, single >>

\* dump_to_byte: the loop condition total_read < N is false.
XLoopExit(c) ==
  /\ calls[c].pc = "read"
  /\ ~KeepReading(calls[c].op, calls[c].total_read, calls[c].N)
  /\ calls' = [calls EXCEPT ![c].pc = "join"]
  /\ UNCHANGED << ptab, handle, single >>

\* A read fails with an I/O error: dump drops the error and goes on to the
\* join; dump_to_byte returns it at once, dropping handle (no join) and read.
XReadFail(c) ==
  /\ calls[c].pc = "read"
  /\ KeepReading(calls[c].op, calls[c].total_read, calls[c].N)
  /\ IF calls[c].op = "dump"
       THEN /\ calls' = [calls EXCEPT ![c] =
                 [@ EXCEPT !.ioErr = TRUE, !.pc = "join",
                           !.buf = AppendToString(calls[c].buf, 0)]]
            /\ ptab' = ptab
       ELSE /\ calls' = [calls EXCEPT ![c] =
                 [@ EXCEPT !.ioErr = TRUE, !.pc = "returned",
                           !.ret = DumpErrorFrom("io")]]
            /\ ptab' = [ptab EXCEPT ![calls[c].rd].readOpen = FALSE]
  /\ UNCHANGED << handle, single >>

\* handle.join().unwrap()?; the block ends (read is dropped); the call returns
\* Ok(buf), returns the worker's error, or panics.
XJoin(c) ==
  /\ calls[c].pc = "join"
  /\ calls[c].wpc = "done"
  /\ calls' = [calls EXCEPT ![c] =
       [@ EXCEPT !.joined = TRUE, !.ret = JoinResult(calls[c].result),
                 !.pc = IF JoinResult(calls[c].result) = "Panic"
                          THEN "panicked" ELSE "returned"]]
  /\ ptab' = [ptab EXCEPT ![calls[c].rd].readOpen = FALSE]
  /\ UNCHANGED << handle, single >>

\* The steps of call c after its entry: its issuing context and its worker.
XStep(c) ==
  \/ XPipeOk(c)
  \/ XPipeFail(c)
  \/ XSpawn(c)
  \/ \E k \in 1..PipeCapX : XReadData(c, k)
  \/ XReadEof(c)
  \/ XLoopExit(c)
  \/ XReadFail(c)
  \/ XJoin(c)
  \/ XWorkerStart(c)
  \/ \E k \in 1..PipeCapX : XWorkerWrite(c, k)
  \/ \E out \in Outcomes : XWorkerReturn(c, out)
  \/ XWorkerExit(c)

XEnter(c) ==
  /\ calls[c].pc = "idle"
  /\ \/ \E w \in OutputsX(c) : XCall(c, "dump", 0, w)
     \/ \E n \in 0..MaxNX, w \in OutputsX(c) : XCall(c, "dump_to_byte", n, w)

\* Sequential calls: a call is made after the earlier calls have returned.
EnterSeq ==
  \E c \in CallIds :
    /\ \A d \in CallIds : d < c => calls[d].pc = "returned"
    /\ XEnter(c)

\* Concurrent calls: any thread may call at any time.
EnterConc == \E c \in CallIds : XEnter(c)

StepX == \E c \in CallIds : XStep(c)

NextSeq == EnterSeq \/ StepX
NextConc == EnterConc \/ StepX

SeqSpec == InitX /\ [][NextSeq]_vars
ConcSpec == InitX /\ [][NextConc]_vars

----------------------------------------------------------------------------
(* Properties *)

Values == {"Ok", "ErrIo", "ErrDump"}

\* The worker is in the remote dump, has output left, and the pipe is full
\* with its read end open: its write waits for pipe space.
WorkerBlocked ==
  /\ wpc = "dump"
  /\ nwritten < Len(W)
  /\ readOpen
  /\ Len(pipe) = PipeCap

\* What dump_to_byte::<n> is to return for output w: the first min(n, Len(w))
\* bytes of w, then zeros.
Expected(n, w) == [i \in 1..n |-> IF i <= Len(w) THEN w[i] ELSE 0]

\* C1: in dump_to_byte there is no reachable state where the caller waits in
\* join while the worker waits for pipe space.
C1_NoJoinWhileWorkerBlocked ==
  ~(op = "dump_to_byte" /\ pc = "join" /\ WorkerBlocked)

\* C2: when a call has returned (Ok, I/O error or remote failure), its worker,
\* if one was spawned, has finished and been joined, and both pipe ends are
\* closed.
C2_TornDownAtReturn ==
  ret \in Values =>
    /\ spawns > 0 => (wpc = "done" /\ joined)
    /\ ~readOpen
    /\ ~writeOpen

\* C3: once a read on the pipe's read end has failed, the call never returns Ok.
C3_ReadFailureReported == ioErr => ret # "Ok"

\* C4: when the remote dump fails, a call in which no pipe read failed returns
\* the remote-dump-failure error, whatever was written before; and in no case
\* is Ok returned.
C4_RemoteFailureReturned ==
  outcome = "fail" =>
    /\ ret # "Ok"
    /\ (ret # "none" /\ pipes = 1 /\ ~ioErr) => ret = "ErrDump"

C4_Witness ==
  /\ op = "dump_to_byte" /\ outcome = "fail" /\ ret = "ErrDump"
  /\ Len(W) > PipeCap /\ Len(W) > N /\ total_read = N /\ N > 0

\* C5: under fair scheduling, a dump (text capture) of an output longer than
\* the pipe buffer, by a remote that then succeeds, returns Ok, with the full
\* content when it decodes, unless a pipe read fails.
C5_LargeDumpCompletes ==
  [](  (op = "dump" /\ pc = "read" /\ outcome = "ok" /\ Len(W) > PipeCap)
       => <>(ioErr \/ (ret = "Ok" /\ (Utf8Valid(W) => buf = W))) )

C5_Witness ==
  /\ op = "dump" /\ outcome = "ok" /\ ret = "Ok" /\ ~ioErr
  /\ Len(W) > PipeCap /\ buf = W

\* C6: when the remote writes a decodable string and succeeds, and no pipe
\* failure occurs, dump returns Ok with exactly that string.
C6_TextRoundTrip ==
  (op = "dump" /\ outcome = "ok" /\ Utf8Valid(W) /\ ret # "none"
     /\ pipes = 1 /\ ~ioErr)
  => (ret = "Ok" /\ buf = W)

C6_Witness ==
  /\ op = "dump" /\ outcome = "ok" /\ ret = "Ok" /\ ~ioErr
  /\ W = << 65, 195, 169 >> /\ buf = W

\* C7: when the remote writes W and succeeds, dump_to_byte::<N> returns either
\* the I/O error of a failed pipe creation or read, or Ok with the first
\* min(N, Len(W)) bytes of W followed by zeros; truncation is no error.
C7_BytesPrefixZeroTail ==
  (op = "dump_to_byte" /\ outcome = "ok" /\ ret # "none")
  => \/ ret = "ErrIo" /\ (ioErr \/ pipes = 0)
     \/ ret = "Ok" /\ ~ioErr /\ buf = Expected(N, W)

C7_Witness ==
  /\ op = "dump_to_byte" /\ outcome = "ok" /\ ret = "Ok"
  /\ N > 0 /\ Len(W) > N /\ buf = SubSeq(W, 1, N)

\* C8: when the output holds undecodable bytes and the remote succeeds, dump
\* returns Ok and the text still holds the decodable content written before
\* the first undecodable byte.
C8_DecodableContentKept ==
  (op = "dump" /\ outcome = "ok" /\ ret # "none" /\ pipes = 1 /\ ~ioErr)
  => /\ ret = "Ok"
     /\ Len(buf) >= ValidUpTo(W)
     /\ SubSeq(buf, 1, ValidUpTo(W)) = SubSeq(W, 1, ValidUpTo(W))

\* C9: a call that joins a panicked worker returns no value, neither Ok nor
\* the typed error: the join panics, and it does so only after the read loop
\* has ended.  (A value beside a panicked worker exists only where a failed
\* read has ended dump_to_byte with its I/O error before any join.)
C9_WorkerPanicPropagates ==
  /\ (result = "panic" /\ ret \in Values)
       => (op = "dump_to_byte" /\ ioErr /\ ret = "ErrIo" /\ ~joined)
  /\ (result = "panic" /\ joined) => (ret = "Panic" /\ pc = "panicked")
  /\ ret = "Panic"
       => /\ result = "panic" /\ joined
          /\ eof \/ ioErr \/ (op = "dump_to_byte" /\ total_read = N)

C9_Witness ==
  /\ ret = "Panic" /\ pc = "panicked" /\ result = "panic"
  /\ op = "dump_to_byte" /\ total_read > 0 /\ ~ioErr

\* C10: a call creates at most one pipe and spawns at most one worker; the
\* remote dump is invoked once by that worker and never again, and not at all
\* when pipe creation fails, in which case the call returns the I/O error.
C10_SingleAttempt ==
  /\ pipes <= 1 /\ spawns <= pipes /\ dumps <= spawns
  /\ (wpc \in {"dump", "drop", "done"}) => dumps = 1
  /\ joined => dumps = 1
  /\ (pipes = 0 /\ pc \notin {"idle", "pipe"})
       => (ret = "ErrIo" /\ pc = "returned" /\ wpc = "idle")

C10_Witness ==
  /\ outcome = "fail" /\ result = "fail" /\ ret = "ErrDump"
  /\ pipes = 1 /\ spawns = 1 /\ dumps = 1

\* C13: the read end of the call's pipe is open for as long as the worker is
\* in its dump invocation, so no write of the remote meets a closed read end.
C13_ReadEndOpenWhileDumping == wpc = "dump" => readOpen

\* The bytes the reading side has accumulated so far.
Accumulated == IF op = "dump" THEN buf ELSE SubSeq(buf, 1, total_read)

\* C14: in dump_to_byte's read loop 0 <= total_read <= N, a read is offered
\* the N - total_read unfilled positions, the positions after total_read hold
\* zero, and the loop has ended only with total_read = N, after a read of zero
\* bytes, or after a failed read.
C14_ReadLoopInvariant ==
  (op = "dump_to_byte" /\ pc \notin {"idle", "pipe"} /\ pipes = 1) =>
    /\ total_read >= 0 /\ total_read <= N
    /\ Len(buf) = N
    /\ \A i \in (total_read + 1)..N : buf[i] = 0
    /\ (pc = "read" /\ total_read < N)
         => ReadRequest(op, total_read, N, Len(pipe)) = Len(buf) - total_read
    /\ (pc \in {"join", "returned", "panicked"})
         => (total_read = N \/ eof \/ ioErr)

C14_Witness ==
  /\ op = "dump_to_byte" /\ pc = "read"
  /\ total_read > 0 /\ total_read < N /\ Len(pipe) > 0

\* C15: while the read end is open, the unread pipe content is the last
\* written bytes in write order, and during the read loop (and up to the join
\* in dump_to_byte) the accumulated bytes followed by the pipe content are
\* exactly the bytes written so far.
C15_PipeIsFifo ==
  (readOpen /\ pc \in {"read", "join"}) =>
    /\ Len(pipe) <= nwritten
    /\ pipe = SubSeq(W, nwritten - Len(pipe) + 1, nwritten)
    /\ (pc = "read" \/ op = "dump_to_byte")
         => Accumulated \o pipe = SubSeq(W, 1, nwritten)

C15_Witness ==
  /\ op = "dump" /\ pc = "read"
  /\ Len(buf) > 1 /\ Len(pipe) > 0 /\ nwritten < Len(W)

\* C16: a read returns zero bytes only after the worker's dump invocation has
\* returned and the worker has finished; a read loop of dump that ended by
\* end of stream is followed by a join that finds the worker's result ready.
C16_EofAfterDumpReturned ==
  eof =>
    /\ wpc = "done" /\ nwritten = Len(W) /\ result = outcome
    /\ pc = "join" => ENABLED Join

C16_Witness ==
  /\ eof /\ op = "dump" /\ pc = "join" /\ Len(W) > PipeCap

\* C12: Dumpsys::new returns the handle for a name the registry resolves and
\* None for a name it does not; it does not panic or return an error, and it
\* creates no pipe and no worker.
C12_NewSomeOrNone ==
  /\ resolved \in ServiceNames => service = resolved
  /\ resolved = "None" => service = "None"
  /\ resolved = "unset" => service = "unset"
  /\ (service # "unset" /\ pc = "idle")
       => /\ ret = "none" /\ pipes = 0 /\ spawns = 0 /\ dumps = 0
          /\ wpc = "idle" /\ ~readOpen /\ ~writeOpen
  /\ service = "None" => pc = "idle"

C12_Witness == service = "None" /\ resolved = "None" /\ pc = "idle"

----------------------------------------------------------------------------
(* Properties of several calls on one handle *)

\* The bytes call c has accumulated so far.
AccumulatedX(c) ==
  IF calls[c].op = "dump" THEN calls[c].buf
  ELSE SubSeq(calls[c].buf, 1, calls[c].total_read)

\* A buffer with the byte that marks call c replaced by 1, to compare calls.
Unmarked(b, c) == [i \in 1..Len(b) |-> IF b[i] = ByteOf(c) THEN 1 ELSE b[i]]

\* Call d has left nothing behind: its worker, if any, has finished and both
\* ends of its pipe, if any, are closed.
TornDown(d) ==
  /\ calls[d].wpc \in {"idle", "done"}
  /\ calls[d].rd > 0 =>
       (~ptab[calls[d].rd].readOpen /\ ~ptab[calls[d].wr].writeOpen)

\* Calls c and d had the same arguments, met the same remote behaviour and no
\* pipe failure, and have both returned.
SameRun(c, d) ==
  /\ calls[c].pc = "returned" /\ calls[d].pc = "returned"
  /\ calls[c].op = calls[d].op /\ calls[c].N = calls[d].N
  /\ Len(calls[c].W) = Len(calls[d].W)
  /\ calls[c].outcome = calls[d].outcome
  /\ calls[c].rd > 0 /\ calls[d].rd > 0
  /\ ~calls[c].ioErr /\ ~calls[d].ioErr

\* C11: sequential calls on one handle are independent: the handle is left
\* unchanged, a call starts with no pipe and no worker left over from an
\* earlier call, and a second call with the same arguments against the same
\* remote behaviour returns the same result as the first.
C11_SequentialCallsIndependent ==
  /\ service = "SurfaceFlinger"
  /\ \A c \in CallIds : calls[c].pc # "idle" =>
       \A d \in CallIds : d < c => TornDown(d)
  /\ SameRun(1, 2) =>
       /\ calls[1].ret = calls[2].ret
       /\ Unmarked(calls[1].buf, 1) = Unmarked(calls[2].buf, 2)

\* What a call that joined its worker returns, by how the remote dump ended.
OutcomeOf(out) ==
  IF out = "ok" THEN "Ok" ELSE IF out = "fail" THEN "ErrDump" ELSE "Panic"

\* C17: two concurrent calls on one handle do not interfere: each has its own
\* pipe and worker, its pipe and buffer hold only bytes its own worker's dump
\* wrote, in order, and what it returns follows from its own worker's result
\* (or its own pipe failure) alone.
C17_ConcurrentCallsIsolated ==
  /\ service = "SurfaceFlinger"
  /\ \A c \in CallIds : calls[c].rd > 0 =>
       /\ calls[c].wr = calls[c].rd
       /\ \A d \in CallIds \ {c} : calls[d].rd # calls[c].rd
       /\ \A i \in 1..Len(ptab[calls[c].rd].data) :
            ptab[calls[c].rd].data[i] = ByteOf(c)
       /\ \A i \in 1..Len(calls[c].buf) : calls[c].buf[i] \in {0, ByteOf(c)}
       /\ calls[c].pc = "read" =>
            AccumulatedX(c) \o ptab[calls[c].rd].data
              = SubSeq(calls[c].W, 1, calls[c].nwritten)
  /\ \A c \in CallIds :
       /\ calls[c].result \in {"none", calls[c].outcome}
       /\ calls[c].joined => calls[c].ret = OutcomeOf(calls[c].outcome)
       /\ (calls[c].ret # "none" /\ ~calls[c].joined) =>
            (calls[c].ret = "ErrIo" /\ (calls[c].ioErr \/ calls[c].rd = 0))
       /\ (calls[c].ret = "Ok" /\ ~calls[c].ioErr) =>
            calls[c].buf = IF calls[c].op = "dump" THEN calls[c].W
                           ELSE Expected(calls[c].N, calls[c].W)

C17_Witness ==
  /\ calls[1].pc = "read" /\ calls[2].pc = "read"
  /\ calls[1].wpc = "dump" /\ calls[2].wpc = "dump"
  /\ calls[1].op = "dump" /\ Len(calls[1].buf) > 0
  /\ calls[2].op = "dump_to_byte" /\ calls[2].total_read > 0
  /\ calls[1].nwritten < Len(calls[1].W)

====
